---------------------------- MODULE Spec2Model ----------------------------
(***************************************************************************)
(* A model of macro/mapfile.py: the Pedestal table read from a .map file,  *)
(* its in-memory mutators, the CSV rate import and the save() protocol     *)
(* acting on a two-path file system (<name>.map and <name>_old.map).       *)
(*                                                                         *)
(* Text is modelled as TLA+ strings, so formatting (writemap) and parsing  *)
(* (the constructor) are computed character by character.                  *)
(***************************************************************************)
EXTENDS Integers, Sequences, FiniteSets, TLC

(***************************************************************************)
(* Bounds of the model.                                                    *)
(***************************************************************************)
\* number of mutator calls (setval, setcol, setcols, import_tq_rates) in a run
MaxMut == 1
\* number of save() calls in a run
MaxSave == 2

(***************************************************************************)
(* Program constants.                                                      *)
(***************************************************************************)
\* width of the row-name field, f"{...:12}"
NameWidth == 12
\* width of a header or value field, f"{...:^14}", f"{...:>14}"
FieldWidth == 14
\* beam current used to convert the CSV rate, uA
ImportCurrent == 65
\* 10**9, GHz to Hz
Giga == 1000000000

(***************************************************************************)
(* Python text primitives.                                                 *)
(***************************************************************************)
Max(a, b) == IF a >= b THEN a ELSE b

Range(s) == {s[i] : i \in 1..Len(s)}

RECURSIVE Spaces(_)
Spaces(n) == IF n <= 0 THEN "" ELSE " " \o Spaces(n - 1)

\* character i (1-based) of a string
Ch(s, i) == SubSeq(s, i, i)

\* str.isspace for the characters that occur in the files of the model
IsSpace(c) == c = " "

\* f"{s:w}" for a string: left-justified, never truncated
LJust(s, w) == s \o Spaces(w - Len(s))

\* f"{s:>w}": right-justified, never truncated
RJust(s, w) == Spaces(w - Len(s)) \o s

\* f"{s:^w}": centred, the odd space goes to the right
Center(s, w) ==
    LET pad == Max(w - Len(s), 0)
        left == pad \div 2
    IN  Spaces(left) \o s \o Spaces(pad - left)

\* str.split(): the maximal runs of non-space characters, in order
RECURSIVE SplitFrom(_, _, _, _)
SplitFrom(s, i, tok, acc) ==
    IF i > Len(s)
    THEN IF tok = "" THEN acc ELSE Append(acc, tok)
    ELSE IF IsSpace(Ch(s, i))
         THEN SplitFrom(s, i + 1, "", IF tok = "" THEN acc ELSE Append(acc, tok))
         ELSE SplitFrom(s, i + 1, tok \o Ch(s, i), acc)

Split(s) == SplitFrom(s, 1, "", <<>>)

\* " ".join(seq)
RECURSIVE Join(_)
Join(seq) ==
    IF seq = <<>> THEN ""
    ELSE IF Len(seq) = 1 THEN seq[1]
    ELSE seq[1] \o " " \o Join(Tail(seq))

DigitChar(d) ==
    CASE d = 0 -> "0" [] d = 1 -> "1" [] d = 2 -> "2" [] d = 3 -> "3"
      [] d = 4 -> "4" [] d = 5 -> "5" [] d = 6 -> "6" [] d = 7 -> "7"
      [] d = 8 -> "8" [] d = 9 -> "9"

\* str(n) for n >= 0
RECURSIVE Digits(_)
Digits(n) == IF n < 10 THEN DigitChar(n) ELSE Digits(n \div 10) \o DigitChar(n % 10)

IsDigit(c) == c \in {"0", "1", "2", "3", "4", "5", "6", "7", "8", "9"}

DigitVal(c) ==
    CASE c = "0" -> 0 [] c = "1" -> 1 [] c = "2" -> 2 [] c = "3" -> 3
      [] c = "4" -> 4 [] c = "5" -> 5 [] c = "6" -> 6 [] c = "7" -> 7
      [] c = "8" -> 8 [] c = "9" -> 9

\* characters the ascii codec can encode; NonAscii stands for one it cannot
NonAscii == "#U+00E9#"
IsAscii(s) == \A i \in 1..Len(s) : Ch(s, i) # "#"

(***************************************************************************)
(* Cell values.  A cell read from a file is a str; setval, setcol and the  *)
(* import store numbers.  k is the Python type: "str", "int" or "nan" (the *)
(* float nan).                                                             *)
(***************************************************************************)
StrV(s) == [k |-> "str", s |-> s, n |-> 0]
IntV(n) == [k |-> "int", s |-> "", n |-> n]
NaN == [k |-> "nan", s |-> "", n |-> 0]

\* format(v, "") : the text a format field renders before padding
Str(v) ==
    CASE v.k = "str" -> v.s
      [] v.k = "int" -> Digits(v.n)
      [] v.k = "nan" -> "nan"

\* math.isnan(v): "TypeError" for a str, else whether v is nan
IsNan(v) ==
    CASE v.k = "str" -> "TypeError"
      [] v.k = "int" -> "False"
      [] v.k = "nan" -> "True"

(***************************************************************************)
(* Dictionaries and Python indexing.                                       *)
(***************************************************************************)
\* the dict built by d.update({seq[i]: i}) for i = 0, 1, ...: the last index wins
DictOf(seq) ==
    [key \in Range(seq) |->
        (CHOOSE i \in 1..Len(seq) :
            seq[i] = key /\ \A j \in 1..Len(seq) : seq[j] = key => j <= i) - 1]

\* list[i] of a list of length len: the 1-based position, or 0 for IndexError
PyIndex(len, i) ==
    IF i >= 0 /\ i < len THEN i + 1
    ELSE IF i < 0 /\ i >= 0 - len THEN len + i + 1
    ELSE 0

(***************************************************************************)
(* Pedestal.__init__, lines 65-86: parse the lines of a .map file.         *)
(* A file is the sequence of its lines, without the line ends.             *)
(***************************************************************************)
\* lines 67-72: the header line
ParseHeaders(lines) ==
    LET h0 == IF lines = <<>> THEN <<>> ELSE Split(lines[1])
        h1 == IF h0 # <<>> /\ h0[1] = "!" THEN Tail(h0) ELSE h0
        h2 == IF h1 # <<>> /\ h1[1] = "Name" THEN Tail(h1) ELSE h1
    IN  [ok |-> h0 # <<>> /\ h1 # <<>>, headers |-> h2]

\* lines 81-84: one data line
ParseRecord(line) ==
    LET record == Split(line)
    IN  [ok |-> record # <<>>,
         name |-> IF record = <<>> THEN "" ELSE record[1],
         cells |-> IF record = <<>> THEN <<>>
                   ELSE [i \in 1..(Len(record) - 1) |-> StrV(record[i + 1])]]

\* lines 65-86: ok is FALSE when the constructor raises IndexError
Parse(lines) ==
    LET hd == ParseHeaders(lines)
        recs == [i \in 1..(Len(lines) - 1) |-> ParseRecord(lines[i + 1])]
        nm == [i \in 1..Len(recs) |-> recs[i].name]
    IN  [ok |-> hd.ok /\ \A i \in 1..Len(recs) : recs[i].ok,
         headers |-> hd.headers,
         cols |-> DictOf(hd.headers),
         names |-> nm,
         entries |-> [i \in 1..Len(recs) |-> recs[i].cells],
         rows |-> DictOf(nm)]

\* countrows, line 97, and countcols, line 93
CountRows(rws) == Cardinality(DOMAIN rws)
CountCols(cls) == Cardinality(DOMAIN cls)

(***************************************************************************)
(* Pedestal.writemap, lines 355-367: the lines written, in order.          *)
(***************************************************************************)
HeaderLine(hdrs) ==
    LJust("! Name", NameWidth)
        \o Join([i \in 1..Len(hdrs) |-> Center(hdrs[i], FieldWidth)])

RowLine(name, entry) ==
    LJust(name, NameWidth)
        \o Join([i \in 1..Len(entry) |-> RJust(Str(entry[i]), FieldWidth)])

\* the number of file.write calls of writemap: the header and countrows() rows
WriteCount(rws) == 1 + CountRows(rws)

\* the k-th line written (k = 1 is the header); names[m] raises IndexError never,
\* since countrows() <= len(names)
WriteLine(hdrs, nms, ents, k) ==
    IF k = 1 THEN HeaderLine(hdrs) ELSE RowLine(nms[k - 1], ents[k - 1])

WriteMapLines(hdrs, nms, ents, rws) ==
    [k \in 1..WriteCount(rws) |-> WriteLine(hdrs, nms, ents, k)]

(***************************************************************************)
(* The .map files a run may start from.  The constructor accepts a file    *)
(* unless parsing it raises (an empty header, a blank line).               *)
(***************************************************************************)
NormRateCol == "NormRate(Hz/uA)"

SourceFiles ==
    { \* a regular file: two detectors, two columns
      <<"! Name Gain NormRate(Hz/uA)", "TQ01_R1 1.0 100", "TQ16_R5L 2.0 200">>,
      \* no marker in the header, irregular white space, no NormRate column
      <<"Name   Gain  VoltPerHz", "  TQ01_R1   1.0  100 ">>,
      \* the same detector on two lines
      <<"! Name Gain NormRate(Hz/uA)", "TQ01_R1 1.0 100", "TQ01_R1 2.0 200">>,
      \* a line with a missing cell
      <<"! Name Gain NormRate(Hz/uA)", "TQ01_R1 1.0 100", "TQ16_R5L 2.0">>,
      \* a 12-character name followed by a 14-character cell
      <<"! Name Gain NormRate(Hz/uA)", "TQ01_R1_long 0.000000000001 100">>,
      \* a blank line: the constructor raises IndexError at line 82
      <<"! Name Gain NormRate(Hz/uA)", "TQ01_R1 1.0 100", "">>,
      \* only the marker in the header: IndexError at line 70
      <<"!", "TQ01_R1 1.0 100">> }

AcceptedFiles == {f \in SourceFiles : Parse(f).ok}

\* a backup left behind by an earlier session
StaleLines == <<"! Name Gain NormRate(Hz/uA)", "TQ01_R1 0.5 50">>

Absent == [exists |-> FALSE, lines |-> <<>>]
FileOf(lines) == [exists |-> TRUE, lines |-> lines]

\* os.path.isfile
IsFile(f, p) == f[p].exists

(***************************************************************************)
(* State.                                                                  *)
(***************************************************************************)
VARIABLES
    fs,        \* the two paths: fs.cur is <name>.map, fs.old is <name>_old.map
    headers,   \* self.headers
    cols,      \* self.cols
    names,     \* self.names
    entries,   \* self.entries
    rows,      \* self.rows
    pc,        \* where the running call stands; "idle" between calls
    renamed,   \* save(): local renamed
    saved,     \* save(): local saved
    wpos,      \* writemap(): file.write calls completed on the open file
    call,      \* the mutator call in progress or just ended, with its arguments
    csv,       \* import_tq_rates(): the rows of the CSV file being read
    ci,        \* import_tq_rates(): rows consumed from the reader
    outcome,   \* how the last call ended: what it printed, what it raised
    nmut,      \* mutator calls made so far
    nsave,     \* save() calls made so far
    presave,   \* history: the lines of <name>.map when save() last began a save
    atCall,    \* history: fs when save() was last called
    log,       \* history: the file-system calls of the current save(); "x!" failed
    before,    \* history: entries when the last mutator call began
    filepath,  \* __init__: the filepath argument
    idx,       \* __init__: the index i of the file-name scan, lines 48-63
    selfname,  \* self.name
    selfpath,  \* self.path
    opened,    \* __init__: whether line 65 has opened the file
    asname,    \* saveas(): the filename argument
    aspath,    \* saveas(): the path argument
    target,    \* saveas(): the local filepath, the file written
    ans,       \* saveas(): the last answer to the prompt of line 314
    nask,      \* saveas(): prompts answered so far
    disk,      \* the files saveas() can reach, by path
    ret,       \* what the last read accessor returned
    nread,     \* read-accessor calls made so far
    dtile,     \* the tile code of the CSV row being decoded
    mapname,   \* import_tq_rates: detector, as built from dtile
    tqname     \* tq_weights.r5weights: detector, as built from dtile

table == <<headers, cols, names, entries, rows>>
locals == <<renamed, saved, wpos>>
hist == <<presave, atCall, log>>
\* the state of the constructor's path handling, of saveas(), of the read
\* accessors and of the tile decoding
ctor == <<filepath, idx, selfname, selfpath, opened>>
sas == <<asname, aspath, target, ans, nask, disk>>
reads == <<ret, nread>>
dec == <<dtile, mapname, tqname>>
aside == <<ctor, sas, reads, dec>>
vars == <<fs, headers, cols, names, entries, rows, pc, renamed, saved, wpos,
          call, csv, ci, outcome, nmut, nsave, presave, atCall, log, before,
          filepath, idx, selfname, selfpath, opened, asname, aspath, target, ans,
          nask, disk, ret, nread, dtile, mapname, tqname>>

NoCall == [op |-> "", row |-> 0, col |-> 0, list |-> <<>>, val |-> NaN]

NoOutcome == [printed |-> "", raised |-> "", error |-> ""]
Printed(msg) == [printed |-> msg, raised |-> "", error |-> ""]
Raised(exc) == [printed |-> "", raised |-> exc, error |-> ""]
\* a RuntimeError raised inside the try of save(): line 297 catches it and prints
Caught(msg) == [printed |-> "Runtime error occurred.", raised |-> "", error |-> msg]

\* no constructor call, no saveas() call, no accessor call and no decoding
\* under way
CtorIdle == filepath = "" /\ idx = 0 /\ selfname = "" /\ selfpath = "" /\ opened = FALSE
SasIdle == asname = "" /\ aspath = "" /\ target = "" /\ ans = "" /\ nask = 0
NoDisk == disk = <<>>
NoRet == [op |-> "", row |-> "", val |-> ""]
ReadsIdle == ret = NoRet /\ nread = 0
DecIdle == dtile = "" /\ mapname = "" /\ tqname = ""

\* an object constructed from one of the source files, no call under way
Loaded ==
    /\ \E f \in AcceptedFiles, b \in {Absent, FileOf(StaleLines)} :
          /\ fs = [cur |-> FileOf(f), old |-> b]
          /\ headers = Parse(f).headers
          /\ cols = Parse(f).cols
          /\ names = Parse(f).names
          /\ entries = Parse(f).entries
          /\ rows = Parse(f).rows
          /\ presave = f
          /\ atCall = [cur |-> FileOf(f), old |-> b]
          /\ before = Parse(f).entries
    /\ pc = "idle"
    /\ renamed = FALSE
    /\ saved = FALSE
    /\ wpos = 0
    /\ call = NoCall
    /\ csv = <<>>
    /\ ci = 0
    /\ outcome = NoOutcome
    /\ nmut = 0
    /\ nsave = 0
    /\ log = <<>>

Init == Loaded /\ CtorIdle /\ SasIdle /\ NoDisk /\ ReadsIdle /\ DecIdle

(***************************************************************************)
(* Pedestal.save, lines 248-298, one action per statement that reads or    *)
(* changes the file system.  Each os call either succeeds, raises OSError  *)
(* or returns having done nothing (the case the code's isfile checks are   *)
(* there for).  OSError is not a RuntimeError: line 297 does not catch it. *)
(***************************************************************************)
OsResults == {"ok", "OSError", "noop"}

\* mutant: the guard of line 263 left out
BackupNeverPresent(f) == FALSE

\* line 263: the guard against an existing backup
BackupPresent(f) == IsFile(f, "old")

\* lines 257-261
SaveCall ==
    /\ pc = "idle"
    /\ nsave < MaxSave
    /\ pc' = "s_check"
    /\ nsave' = nsave + 1
    /\ renamed' = FALSE
    /\ saved' = FALSE
    /\ wpos' = 0
    /\ outcome' = NoOutcome
    /\ atCall' = fs
    /\ presave' = IF IsFile(fs, "old") \/ ~IsFile(fs, "cur") THEN presave ELSE fs.cur.lines
    /\ log' = <<>>
    /\ UNCHANGED <<aside, fs, table, call, csv, ci, nmut, before>>

\* lines 263-266
SaveCheck ==
    /\ pc = "s_check"
    /\ IF BackupPresent(fs)
       THEN /\ pc' = "s_done"
            /\ outcome' = Caught("Please rename or remove backup file before saving.")
       ELSE /\ pc' = "s_rename"
            /\ UNCHANGED outcome
    /\ UNCHANGED <<aside, fs, table, locals, call, csv, ci, nmut, nsave, hist, before>>

\* line 267: os.rename(currentfile, oldfile)
SaveRename ==
    /\ pc = "s_rename"
    /\ \E res \in OsResults :
          CASE res = "ok" /\ IsFile(fs, "cur") ->
                  /\ fs' = [cur |-> Absent, old |-> fs.cur]
                  /\ log' = Append(log, "rename")
                  /\ pc' = "s_verify"
                  /\ UNCHANGED outcome
            [] res = "noop" ->
                  /\ pc' = "s_verify"
                  /\ log' = Append(log, "rename!")
                  /\ UNCHANGED <<fs, outcome>>
            [] OTHER ->
                  /\ pc' = "s_done"
                  /\ outcome' = Raised("OSError")
                  /\ log' = Append(log, "rename!")
                  /\ UNCHANGED fs
    /\ UNCHANGED <<aside, table, locals, call, csv, ci, nmut, nsave, presave, atCall, before>>

\* lines 268-273
SaveVerify ==
    /\ pc = "s_verify"
    /\ IF IsFile(fs, "old") /\ ~IsFile(fs, "cur")
       THEN /\ renamed' = TRUE
            /\ pc' = "s_open"
            /\ UNCHANGED outcome
       ELSE /\ pc' = "s_done"
            /\ outcome' = Caught("Save failed to rename old file.")
            /\ UNCHANGED renamed
    /\ UNCHANGED <<aside, fs, table, saved, wpos, call, csv, ci, nmut, nsave, hist, before>>

(***************************************************************************)
(* self.writemap(currentfile), line 274, in the steps of lines 357-367.    *)
(* An exception raised while the file is open closes it (the with block)   *)
(* and leaves save() through line 274: the lines written so far stay.      *)
(***************************************************************************)
\* line 357: open(fullpath, "w") creates or truncates the file
WriteOpen ==
    /\ pc = "s_open"
    /\ \E res \in {"ok", "OSError"} :
          IF res = "ok"
          THEN /\ fs' = [fs EXCEPT !.cur = FileOf(<<>>)]
               /\ wpos' = 0
               /\ pc' = "s_write"
               /\ UNCHANGED <<outcome, log>>
          ELSE /\ pc' = "s_done"
               /\ outcome' = Raised("OSError")
               /\ log' = Append(log, "write!")
               /\ UNCHANGED <<fs, wpos>>
    /\ UNCHANGED <<aside, table, renamed, saved, call, csv, ci, nmut, nsave, presave, atCall,
                   before>>

\* lines 358-367: one file.write; the ascii codec rejects a line it cannot encode
WriteNext ==
    /\ pc = "s_write"
    /\ wpos < WriteCount(rows)
    /\ LET line == WriteLine(headers, names, entries, wpos + 1)
       IN  \E res \in {"ok", "OSError"} :
              IF ~IsAscii(line)
              THEN /\ pc' = "s_done"
                   /\ outcome' = Raised("UnicodeEncodeError")
                   /\ log' = Append(log, "write!")
                   /\ UNCHANGED <<fs, wpos>>
              ELSE IF res = "ok"
              THEN /\ fs' = [fs EXCEPT !.cur.lines = Append(@, line)]
                   /\ wpos' = wpos + 1
                   /\ UNCHANGED <<pc, outcome, log>>
              ELSE /\ pc' = "s_done"
                   /\ outcome' = Raised("OSError")
                   /\ log' = Append(log, "write!")
                   /\ UNCHANGED <<fs, wpos>>
    /\ UNCHANGED <<aside, table, renamed, saved, call, csv, ci, nmut, nsave, presave, atCall,
                   before>>

\* the with block ends and writemap returns.  "lost": the file is not at the
\* path when line 275 looks for it, the case that line tests for
WriteClose ==
    /\ pc = "s_write"
    /\ wpos = WriteCount(rows)
    /\ \E res \in {"ok", "lost"} :
          IF res = "ok"
          THEN /\ log' = Append(log, "write")
               /\ UNCHANGED fs
          ELSE /\ fs' = [fs EXCEPT !.cur = Absent]
               /\ log' = Append(log, "write!")
    /\ pc' = "s_exists"
    /\ UNCHANGED <<aside, table, locals, call, csv, ci, outcome, nmut, nsave, presave, atCall, before>>

\* lines 275-277 and the test of line 286
SaveExists ==
    /\ pc = "s_exists"
    /\ IF IsFile(fs, "cur")
       THEN /\ saved' = TRUE
            /\ IF renamed /\ saved'
               THEN pc' = "s_remove" /\ UNCHANGED outcome
               ELSE /\ pc' = "s_done"
                    /\ outcome' = Raised("RuntimeWarning")
       ELSE /\ pc' = "s_restore"
            /\ UNCHANGED <<saved, outcome>>
    /\ UNCHANGED <<aside, fs, table, renamed, wpos, call, csv, ci, nmut, nsave, hist, before>>

\* line 278: os.rename(oldfile, currentfile)
SaveRestore ==
    /\ pc = "s_restore"
    /\ \E res \in OsResults :
          CASE res = "ok" /\ IsFile(fs, "old") ->
                  /\ fs' = [cur |-> fs.old, old |-> Absent]
                  /\ log' = Append(log, "restore")
                  /\ pc' = "s_restored"
                  /\ UNCHANGED outcome
            [] res = "noop" ->
                  /\ pc' = "s_restored"
                  /\ log' = Append(log, "restore!")
                  /\ UNCHANGED <<fs, outcome>>
            [] OTHER ->
                  /\ pc' = "s_done"
                  /\ outcome' = Raised("OSError")
                  /\ log' = Append(log, "restore!")
                  /\ UNCHANGED fs
    /\ UNCHANGED <<aside, table, locals, call, csv, ci, nmut, nsave, presave, atCall, before>>

\* lines 279-284: both RuntimeErrors end at line 297
SaveRestored ==
    /\ pc = "s_restored"
    /\ pc' = "s_done"
    /\ outcome' = IF IsFile(fs, "cur")
                  THEN Caught("Save failed to create new file. The original file was restored.")
                  ELSE Caught("Save completely failed.")
    /\ UNCHANGED <<aside, fs, table, locals, call, csv, ci, nmut, nsave, hist, before>>

\* line 287: os.remove(oldfile)
SaveRemove ==
    /\ pc = "s_remove"
    /\ \E res \in OsResults :
          CASE res = "ok" /\ IsFile(fs, "old") ->
                  /\ fs' = [fs EXCEPT !.old = Absent]
                  /\ log' = Append(log, "delete")
                  /\ pc' = "s_removed"
                  /\ UNCHANGED outcome
            [] res = "noop" ->
                  /\ pc' = "s_removed"
                  /\ log' = Append(log, "delete!")
                  /\ UNCHANGED <<fs, outcome>>
            [] OTHER ->
                  /\ pc' = "s_done"
                  /\ outcome' = Raised("OSError")
                  /\ log' = Append(log, "delete!")
                  /\ UNCHANGED fs
    /\ UNCHANGED <<aside, table, locals, call, csv, ci, nmut, nsave, presave, atCall, before>>

\* lines 288-292: RuntimeWarning is not a RuntimeError, so line 297 lets it pass
SaveRemoved ==
    /\ pc = "s_removed"
    /\ pc' = "s_done"
    /\ outcome' = IF IsFile(fs, "old")
                  THEN Raised("RuntimeWarning")
                  ELSE Printed("Save successful.")
    /\ UNCHANGED <<aside, fs, table, locals, call, csv, ci, nmut, nsave, hist, before>>

\* save() has ended (returned or raised); the session goes on
SaveReturn ==
    /\ pc = "s_done"
    /\ pc' = "idle"
    /\ UNCHANGED <<aside, fs, table, locals, call, csv, ci, outcome, nmut, nsave, hist, before>>

SavePcs == {"s_check", "s_rename", "s_verify", "s_open", "s_write", "s_exists",
            "s_restore", "s_restored", "s_remove", "s_removed"}

\* the process dies in the middle of save(): the files stay as they are
Crash ==
    /\ pc \in SavePcs
    /\ pc' = "crashed"
    /\ UNCHANGED <<aside, fs, table, locals, call, csv, ci, outcome, nmut, nsave, hist, before>>

Save ==
    \/ SaveCall \/ SaveCheck \/ SaveRename \/ SaveVerify
    \/ WriteOpen \/ WriteNext \/ WriteClose
    \/ SaveExists \/ SaveRestore \/ SaveRestored \/ SaveRemove \/ SaveRemoved
    \/ SaveReturn \/ Crash

(***************************************************************************)
(* The mutators, lines 330-346.                                            *)
(***************************************************************************)
\* setval, line 346: self.entries[row][col] = val; ok is FALSE for IndexError
SetValOn(ents, row, col, val) ==
    LET r == PyIndex(Len(ents), row)
        c == IF r = 0 THEN 0 ELSE PyIndex(Len(ents[r]), col)
    IN  [ok |-> r # 0 /\ c # 0,
         entries |-> IF r # 0 /\ c # 0 THEN [ents EXCEPT ![r][c] = val] ELSE ents]

\* lines 334-335: the loop of setcol over range(countrows()), from row on
RECURSIVE SetColFrom(_, _, _, _, _)
SetColFrom(ents, row, n, col, val) ==
    IF row >= n THEN [raised |-> "", entries |-> ents]
    ELSE LET one == SetValOn(ents, row, col, val)
         IN  IF one.ok THEN SetColFrom(one.entries, row + 1, n, col, val)
             ELSE [raised |-> "IndexError", entries |-> ents]

\* the rows setcol visits: range(self.countrows()), line 334
SetColRows(rws) == CountRows(rws)

\* line 332 (and 339): the value is rejected when math.isnan says so or raises
Rejects(val) == IsNan(val) # "False"

\* setcol, lines 330-335
SetColOn(ents, rws, col, val) ==
    IF Rejects(val) THEN [raised |-> "TypeError", entries |-> ents]
    ELSE SetColFrom(ents, 0, SetColRows(rws), col, val)

\* lines 341-342: the loop of setcols, from position i of the list on
RECURSIVE SetColsFrom(_, _, _, _, _, _)
SetColsFrom(ents, cls, rws, list, i, val) ==
    IF i > Len(list) THEN [raised |-> "", entries |-> ents]
    ELSE IF list[i] \notin DOMAIN cls THEN [raised |-> "KeyError", entries |-> ents]
    ELSE LET one == SetColOn(ents, rws, cls[list[i]], val)
         IN  IF one.raised = "" THEN SetColsFrom(one.entries, cls, rws, list, i + 1, val)
             ELSE one

\* setcols, lines 337-342
SetColsOn(ents, cls, rws, list, val) ==
    IF Rejects(val) THEN [raised |-> "TypeError", entries |-> ents]
    ELSE SetColsFrom(ents, cls, rws, list, 1, val)

\* the arguments the model calls the mutators with
RowArgs == {0, 1}
ColArgs == {-1, 0, 1, 2}
SetValVals == {IntV(7), StrV(NonAscii)}
SetColVals == {IntV(7), NaN, StrV("x")}
ColLists == {<<"Gain">>, <<"Gain", NormRateCol>>, <<"Gain", "Nope", NormRateCol>>}

\* mutant: setval writing the file of the object after changing the cell
SetValAutosave(row, col, val) ==
    /\ pc = "idle"
    /\ nmut < MaxMut
    /\ LET res == SetValOn(entries, row, col, val)
       IN  /\ entries' = res.entries
           /\ outcome' = IF res.ok THEN NoOutcome ELSE Raised("IndexError")
           /\ fs' = [fs EXCEPT !.cur = FileOf(WriteMapLines(headers, names, res.entries, rows))]
    /\ nmut' = nmut + 1
    /\ before' = entries
    /\ pc' = "m_done"
    /\ call' = [op |-> "setval", row |-> row, col |-> col, list |-> <<>>, val |-> val]
    /\ UNCHANGED <<aside, headers, cols, names, rows, locals, csv, ci, nsave, hist>>

SetVal(row, col, val) ==
    /\ pc = "idle"
    /\ nmut < MaxMut
    /\ LET res == SetValOn(entries, row, col, val)
       IN  /\ entries' = res.entries
           /\ outcome' = IF res.ok THEN NoOutcome ELSE Raised("IndexError")
    /\ nmut' = nmut + 1
    /\ before' = entries
    /\ pc' = "m_done"
    /\ call' = [op |-> "setval", row |-> row, col |-> col, list |-> <<>>, val |-> val]
    /\ UNCHANGED <<aside, fs, headers, cols, names, rows, locals, csv, ci, nsave, hist>>

SetCol(col, val) ==
    /\ pc = "idle"
    /\ nmut < MaxMut
    /\ LET res == SetColOn(entries, rows, col, val)
       IN  /\ entries' = res.entries
           /\ outcome' = IF res.raised = "" THEN NoOutcome ELSE Raised(res.raised)
    /\ nmut' = nmut + 1
    /\ before' = entries
    /\ pc' = "m_done"
    /\ call' = [op |-> "setcol", row |-> 0, col |-> col, list |-> <<>>, val |-> val]
    /\ UNCHANGED <<aside, fs, headers, cols, names, rows, locals, csv, ci, nsave, hist>>

SetCols(list, val) ==
    /\ pc = "idle"
    /\ nmut < MaxMut
    /\ LET res == SetColsOn(entries, cols, rows, list, val)
       IN  /\ entries' = res.entries
           /\ outcome' = IF res.raised = "" THEN NoOutcome ELSE Raised(res.raised)
    /\ nmut' = nmut + 1
    /\ before' = entries
    /\ pc' = "m_done"
    /\ call' = [op |-> "setcols", row |-> 0, col |-> 0, list |-> list, val |-> val]
    /\ UNCHANGED <<aside, fs, headers, cols, names, rows, locals, csv, ci, nsave, hist>>

\* the mutator has returned or raised; the session goes on
MutReturn ==
    /\ pc = "m_done"
    /\ pc' = "idle"
    /\ UNCHANGED <<aside, fs, table, locals, call, csv, ci, outcome, nmut, nsave, hist, before>>

Mutate ==
    \/ \E row \in RowArgs, col \in ColArgs, val \in SetValVals : SetVal(row, col, val)
    \/ \E col \in ColArgs, val \in SetColVals : SetCol(col, val)
    \/ \E list \in ColLists, val \in SetColVals : SetCols(list, val)
    \/ MutReturn

(***************************************************************************)
(* Pedestal.import_tq_rates, lines 209-241.                                *)
(***************************************************************************)
\* int(s) for a string of decimal digits
RECURSIVE IntOf(_)
IntOf(s) ==
    IF s = "" THEN 0
    ELSE 10 * IntOf(SubSeq(s, 1, Len(s) - 1)) + DigitVal(Ch(s, Len(s)))

AllDigits(s) == s # "" /\ \A i \in 1..Len(s) : IsDigit(Ch(s, i))

\* f"{n:02}"
Pad2(n) ==
    IF n < 0 THEN "-" \o Digits(0 - n)
    ELSE IF n < 10 THEN "0" \o Digits(n)
    ELSE Digits(n)

\* mutant: the test of line 216 left out, every segment taken as front flush
SegmentNeverBack(flush, num) == 2 * num - 1

\* mutant: the match of lines 226-232 always taking its first case
SuffixAlwaysLeft(pos) == "L"

\* lines 216-219
Segment(flush, num) == IF flush = "11" THEN 2 * num ELSE 2 * num - 1

\* lines 226-232
Suffix(pos) ==
    CASE pos = "1" -> "L"
      [] pos = "2" -> "C"
      [] pos = "3" -> "R"
      [] OTHER -> ""

\* lines 212-232: the detector name of a six-character tile code
Detector(tile) ==
    LET flush == SubSeq(tile, 1, 2)
        num == IntOf(SubSeq(tile, 3, 4))
        ring == Ch(tile, 5)
        pos == Ch(tile, 6)
    IN  "TQ" \o Pad2(Segment(flush, num)) \o "_R" \o ring \o Suffix(pos)

\* line 224, for a rate of ghz GHz: int(float(...) * 10**9 / current)
Rate(ghz) == IntV((ghz * Giga) \div ImportCurrent)

\* the CSV files of the model: rows of a tile code and a rate in GHz
CsvFiles ==
    { \* both detectors are in the regular table
      << [tile |-> "150110", ghz |-> 1], [tile |-> "110851", ghz |-> 2] >>,
      \* the second code decodes to TQ23_R2, which no table has
      << [tile |-> "150110", ghz |-> 2], [tile |-> "151220", ghz |-> 1],
         [tile |-> "110851", ghz |-> 1] >> }

\* lines 209-210: the file is opened and the reader made
ImportCall(file) ==
    /\ pc = "idle"
    /\ nmut < MaxMut
    /\ pc' = "import"
    /\ csv' = file
    /\ ci' = 0
    /\ nmut' = nmut + 1
    /\ before' = entries
    /\ call' = [op |-> "import_tq_rates", row |-> 0, col |-> 0, list |-> <<>>, val |-> NaN]
    /\ outcome' = NoOutcome
    /\ UNCHANGED <<aside, fs, table, locals, nsave, hist>>

\* mutant: an unmatched detector is skipped and the import goes on
ImportOneSkipping(ents, rws, cls, row) ==
    LET detector == Detector(row.tile)
    IN  IF detector \notin DOMAIN rws \/ NormRateCol \notin DOMAIN cls
        THEN [status |-> "", entries |-> ents]
        ELSE LET res == SetValOn(ents, rws[detector], cls[NormRateCol], Rate(row.ghz))
             IN  [status |-> IF res.ok THEN "" ELSE "IndexError", entries |-> res.entries]

\* lines 233-239: what one CSV row does to the table.  status "" goes on to
\* the next row, "KeyError" is caught at line 236, "IndexError" leaves the call
ImportOne(ents, rws, cls, row) ==
    LET detector == Detector(row.tile)
    IN  IF detector \notin DOMAIN rws \/ NormRateCol \notin DOMAIN cls
        THEN [status |-> "KeyError", entries |-> ents]
        ELSE LET res == SetValOn(ents, rws[detector], cls[NormRateCol], Rate(row.ghz))
             IN  [status |-> IF res.ok THEN "" ELSE "IndexError", entries |-> res.entries]

\* lines 211-239: the loop body for the next row of the reader
ImportRow ==
    /\ pc = "import"
    /\ ci < Len(csv)
    /\ LET res == ImportOne(entries, rows, cols, csv[ci + 1])
       IN  /\ entries' = res.entries
           /\ ci' = ci + 1
           /\ CASE res.status = "" -> UNCHANGED <<pc, outcome>>
                [] res.status = "KeyError" ->
                      /\ pc' = "m_done"
                      /\ outcome' = Printed("Import failed.")
                [] OTHER ->
                      /\ pc' = "m_done"
                      /\ outcome' = Raised(res.status)
    /\ UNCHANGED <<aside, fs, headers, cols, names, rows, locals, call, csv, nmut, nsave,
                   hist, before>>

\* line 241: the reader is exhausted
ImportEnd ==
    /\ pc = "import"
    /\ ci = Len(csv)
    /\ pc' = "m_done"
    /\ outcome' = Printed("Import successful.")
    /\ UNCHANGED <<aside, fs, table, locals, call, csv, ci, nmut, nsave, hist, before>>

Import ==
    \/ \E file \in CsvFiles : ImportCall(file)
    \/ ImportRow
    \/ ImportEnd

Next == Save \/ Mutate \/ Import

Spec == Init /\ [][Next]_vars

(***************************************************************************)
(* What the claims speak of.                                               *)
(***************************************************************************)
\* the text of every cell of a list of entries
Texts(ents) == [i \in 1..Len(ents) |-> [j \in 1..Len(ents[i]) |-> Str(ents[i][j])]]

\* the lines are a complete copy of the in-memory table: parsing them gives its
\* column names, its row names and the text of its cells, in order
IsCopyOfTable(lines) ==
    LET p == Parse(lines)
    IN  /\ p.ok
        /\ p.headers = headers
        /\ p.names = names
        /\ Texts(p.entries) = Texts(entries)

\* path p holds a complete copy: the content <name>.map had before this save,
\* or the whole in-memory table
HoldsCopy(p) ==
    /\ IsFile(fs, p)
    /\ \/ fs[p].lines = presave
       \/ IsCopyOfTable(fs[p].lines)

InSave == pc \in SavePcs \cup {"s_done", "crashed"}

\* C1: in every state of a save(), also after a crash or a failed rename, write
\* or delete, <name>.map or <name>_old.map holds a complete copy of the table
C1_ACopySurvives == InSave => HoldsCopy("cur") \/ HoldsCopy("old")

\* C2: a save() called while <name>_old.map exists changes no file, goes no
\* further than the check of line 263 and ends in the caught RuntimeError; this
\* holds for every save() of the run
C2_StaleBackupAborts ==
    (InSave /\ IsFile(atCall, "old")) =>
        /\ fs = atCall
        /\ log = <<>>
        /\ pc \in {"s_check", "s_done", "crashed"}
        /\ pc = "s_done" =>
              outcome = Caught("Please rename or remove backup file before saving.")

\* C2, witness: the second save() of a run finds the backup the first one left
\* behind and has ended at the check
C2_Witness ==
    /\ pc = "s_done"
    /\ nsave = 2
    /\ IsFile(atCall, "old")
    /\ atCall.old.lines # StaleLines
    /\ outcome.error = "Please rename or remove backup file before saving."

\* C3: when the write fails after the rename, save() ends with the original
\* restored (<name>.map holds the pre-save content, <name>_old.map is gone) and
\* the failure reported, or, the restore having failed too, with the fatal report
C3_WriteFailureRestores ==
    (pc = "s_done" /\ renamed /\ ~saved) =>
        \/ /\ IsFile(fs, "cur")
           /\ fs.cur.lines = presave
           /\ ~IsFile(fs, "old")
           /\ outcome.error = "Save failed to create new file. The original file was restored."
        \/ /\ log # <<>>
           /\ log[Len(log)] = "restore!"
           /\ outcome.error = "Save completely failed."

\* C4: when rename and write succeeded and os.remove has returned with the
\* backup still there, save() returns normally with the new file in place
C4_DeleteFailureIsSuccess ==
    (pc = "s_done" /\ renamed /\ saved /\ IsFile(fs, "old") /\ outcome.raised # "OSError") =>
        /\ outcome.raised = ""
        /\ IsFile(fs, "cur")

\* C5: a save() without a backup in its way, each of whose file-system steps
\* succeeds, renames, then writes, then deletes, and ends with the in-memory
\* table in <name>.map and no <name>_old.map; the delete step is taken only
\* with the new file seen at <name>.map
C5_OrderedSave ==
    /\ (pc = "s_done" /\ outcome = Printed("Save successful.")) =>
          /\ log = <<"rename", "write", "delete">>
          /\ IsFile(fs, "cur")
          /\ IsCopyOfTable(fs.cur.lines)
          /\ ~IsFile(fs, "old")
    /\ pc = "s_remove" => saved /\ IsFile(fs, "cur")

\* C6: the file writemap has written parses back to the table it was written
\* from: the same column names, row names and cell texts, in the same order
C6_RoundTrip ==
    (pc = "s_exists" /\ IsFile(fs, "cur")) => IsCopyOfTable(fs.cur.lines)

\* C7: len(entries) == len(rows), every entry has len(columns) cells and the
\* row names are unique, after construction and after every mutator call
C7_TableInvariant ==
    /\ Len(entries) = CountRows(rows)
    /\ \A i \in 1..Len(entries) : Len(entries[i]) = CountCols(cols)
    /\ Cardinality(Range(names)) = Len(names)

\* C8: right after construction countrows() is the number of lines of the
\* source file after its header line
C8_RowCount ==
    (pc = "idle" /\ nmut = 0 /\ nsave = 0) => CountRows(rows) = Len(fs.cur.lines) - 1

\* C9: setcol(col, nan) raises and leaves every cell as it was; setcol(col, val)
\* with a number, col being a column of the table, leaves val in column col of
\* every row and every other cell as it was
C9_SetCol ==
    (pc = "m_done" /\ call.op = "setcol") =>
        /\ call.val.k = "nan" => (outcome.raised = "TypeError" /\ entries = before)
        /\ (call.val.k = "int" /\ call.col \in 0..(CountCols(cols) - 1)) =>
              /\ Len(entries) = Len(before)
              /\ \A r \in 1..Len(entries) :
                    /\ Len(entries[r]) = Len(before[r])
                    /\ call.col + 1 <= Len(entries[r])
                    /\ \A c \in 1..Len(entries[r]) :
                          entries[r][c] = IF c = call.col + 1 THEN call.val
                                          ELSE before[r][c]

\* the detector of a CSV row is no row of the table
Unmatched(row) == Detector(row.tile) \notin DOMAIN rows

Importing == call.op = "import_tq_rates" /\ pc \in {"import", "m_done"}

\* no CSV row consumed after the first unmatched one, which ends the import
\* with the error report
C10_StopsAtFirstUnmatched ==
    \A j \in 1..ci :
        Unmatched(csv[j]) =>
            (j = ci /\ pc = "m_done" /\ outcome = Printed("Import failed."))

\* the table keeps its shape and every cell outside the NormRate(Hz/uA) column
C10_OnlyNormRate ==
    /\ Len(entries) = Len(before)
    /\ \A r \in 1..Len(entries) :
          /\ Len(entries[r]) = Len(before[r])
          /\ \A c \in 1..Len(entries[r]) :
                (NormRateCol \notin DOMAIN cols \/ c # cols[NormRateCol] + 1)
                    => entries[r][c] = before[r][c]

\* when the import has failed, the rates of the rows before the failing one
\* are in the table (the last one, for a detector named twice)
C10_NoRollback ==
    outcome = Printed("Import failed.") =>
        \A j \in 1..(ci - 1) :
            (\A k \in (j + 1)..(ci - 1) : csv[k].tile # csv[j].tile) =>
                entries[rows[Detector(csv[j].tile)] + 1][cols[NormRateCol] + 1]
                    = Rate(csv[j].ghz)

\* the step that consumes an unmatched row changes no cell and ends the import;
\* nothing is changed once the import has ended
C10_FailingStep ==
    /\ (pc = "import" /\ ci' = ci + 1 /\ Unmatched(csv[ci + 1])) =>
          (entries' = entries /\ pc' = "m_done")
    /\ (pc = "m_done" /\ call.op = "import_tq_rates") => entries' = entries

\* C10: import_tq_rates stops at the first CSV row whose detector name is no
\* row of the table and reports the error; that row and the rows after it
\* change no cell, the rates imported before it stay, and no cell outside the
\* NormRate(Hz/uA) column is changed
C10_ImportFailsFast ==
    /\ [](Importing =>
            C10_StopsAtFirstUnmatched /\ C10_OnlyNormRate /\ C10_NoRollback)
    /\ [][C10_FailingStep]_vars

\* C10, witness: an import has failed at its second row of three, after the
\* first row's rate went into the table
C10_Witness ==
    /\ pc = "m_done"
    /\ call.op = "import_tq_rates"
    /\ outcome = Printed("Import failed.")
    /\ Len(csv) = 3
    /\ ci = 2
    /\ Unmatched(csv[2])
    /\ entries # before


(***************************************************************************)
(* The tile-code decoding of import_tq_rates (mapfile.py, lines 212-232)   *)
(* and of r5weights (tq_weights.py, lines 74-94), as pure functions of the *)
(* code read from a CSV row, applied to every code of a bounded set.       *)
(***************************************************************************)
MaxNN == 14

Min(a, b) == IF a <= b THEN a ELSE b

\* s[lo:hi] of Python, 0-based, negative indices counted from the end
PySlice(s, lo, hi) ==
    LET n == Len(s)
        a == IF lo < 0 THEN Max(n + lo, 0) ELSE Min(lo, n)
        b == IF hi < 0 THEN Max(n + hi, 0) ELSE Min(hi, n)
    IN  IF a >= b THEN "" ELSE SubSeq(s, a + 1, b)

\* tq_weights.py lines 86-94
TqSuffix(pos) ==
    CASE pos = "1" -> "l"
      [] pos = "2" -> "c"
      [] pos = "3" -> "r"
      [] OTHER -> ""

\* tq_weights.py lines 74-94: the same arithmetic, the name in lower case
TqName(tile) ==
    LET flush == PySlice(tile, 0, 2)
        num == IntOf(PySlice(tile, 2, 4))
        segment == IF flush = "11" THEN 2 * num ELSE 2 * num - 1
        ring == Ch(tile, 5)
        pos == Ch(tile, 6)
    IN  "tq" \o Pad2(segment) \o "_r" \o ring \o TqSuffix(pos)

\* the exception the decoding raises: int() at line 214 on a field that is
\* not a number, tile[4] or tile[5] at lines 220-221 on a short code
DecodeError(tile) ==
    IF ~AllDigits(PySlice(tile, 2, 4)) THEN "ValueError"
    ELSE IF Len(tile) < 6 THEN "IndexError"
    ELSE ""

TwoDigit(n) == DigitChar(n \div 10) \o DigitChar(n % 10)

\* the codes decoded: both flush sides and a third prefix, every group
\* number up to MaxNN and the largest two-digit ones, three rings, every
\* kind of position character; then a code with letters for NN and a
\* code of four characters
Tiles ==
    { ff \o TwoDigit(nn) \o r \o p :
        ff \in {"11", "15", "12"}, nn \in (0..MaxNN) \cup {50, 99},
        r \in {"1", "2", "5"}, p \in {"0", "1", "2", "3", "x"} }
    \cup {"15ab10", "1501"}

\* import_tq_rates, lines 212-232, on a row whose tile is t
MapDecode(t) ==
    /\ pc = "idle"
    /\ dtile' = t
    /\ tqname' = ""
    /\ IF DecodeError(t) = ""
       THEN mapname' = Detector(t) /\ outcome' = NoOutcome
       ELSE mapname' = "" /\ outcome' = Raised(DecodeError(t))
    /\ UNCHANGED <<ctor, sas, reads, fs, table, locals, pc, call, csv, ci, nmut, nsave,
                   hist, before>>

\* r5weights, lines 74-94, on a row whose detno is t
TqDecode(t) ==
    /\ pc = "idle"
    /\ dtile' = t
    /\ mapname' = ""
    /\ IF DecodeError(t) = ""
       THEN tqname' = TqName(t) /\ outcome' = NoOutcome
       ELSE tqname' = "" /\ outcome' = Raised(DecodeError(t))
    /\ UNCHANGED <<ctor, sas, reads, fs, table, locals, pc, call, csv, ci, nmut, nsave,
                   hist, before>>

\* no object: nothing constructed, nothing on disk
Unloaded ==
    /\ fs = [cur |-> Absent, old |-> Absent]
    /\ headers = <<>> /\ cols = <<>> /\ names = <<>> /\ entries = <<>> /\ rows = <<>>
    /\ presave = <<>> /\ atCall = [cur |-> Absent, old |-> Absent] /\ before = <<>>
    /\ renamed = FALSE /\ saved = FALSE /\ wpos = 0
    /\ call = NoCall /\ csv = <<>> /\ ci = 0 /\ outcome = NoOutcome
    /\ nmut = 0 /\ nsave = 0 /\ log = <<>>

InitDecode ==
    /\ Unloaded /\ CtorIdle /\ SasIdle /\ NoDisk /\ ReadsIdle /\ DecIdle
    /\ pc = "idle"

NextDecode == \E t \in Tiles : MapDecode(t) \/ TqDecode(t)

SpecDecode == InitDecode /\ [][NextDecode]_vars

\* a code of six digits
Numeric(tile) == Len(tile) = 6 /\ AllDigits(tile)

\* the name the claim gives for a code: the numeral of the segment, zeros
\* put in front of it until it is two characters long
Numeral(n) == IF n < 0 THEN "-" \o Digits(0 - n) ELSE Digits(n)
ZeroPadded(n) == IF Len(Numeral(n)) < 2 THEN "0" \o Numeral(n) ELSE Numeral(n)
ClaimedSegment(tile) ==
    LET nn == 10 * DigitVal(Ch(tile, 3)) + DigitVal(Ch(tile, 4))
    IN  IF Ch(tile, 1) = "1" /\ Ch(tile, 2) = "1" THEN 2 * nn ELSE 2 * nn - 1
ClaimedSuffix(tile) ==
    IF Ch(tile, 6) = "1" THEN "L"
    ELSE IF Ch(tile, 6) = "2" THEN "C"
    ELSE IF Ch(tile, 6) = "3" THEN "R"
    ELSE ""
ClaimedName(tile) ==
    "TQ" \o ZeroPadded(ClaimedSegment(tile)) \o "_R" \o Ch(tile, 5) \o ClaimedSuffix(tile)

\* import_tq_rates has decoded dtile
MapDecoded == dtile # "" /\ tqname = "" /\ outcome = NoOutcome

\* r5weights has decoded dtile
TqDecoded == dtile # "" /\ mapname = "" /\ outcome = NoOutcome

C12_AsStated == (MapDecoded /\ dtile = "151220") => mapname = "TQ21_R2"

\* C12, amended: decoding "151220" yields segment 2*12-1 = 23, ring 2 and no
\* suffix (TQ23_R2); TQ21_R2 is what "151120" decodes to.
C12_Decode151220 ==
    /\ (MapDecoded /\ dtile = "151220") => mapname = "TQ23_R2"
    /\ (MapDecoded /\ dtile = "151120") => mapname = "TQ21_R2"

C12_Witness == MapDecoded /\ dtile = "151220" /\ mapname = "TQ23_R2"

\* C17: r5weights maps the codes of its docstring as the docstring says:
\* 150110 to tq01_r1, 110851 to tq16_r5l, 151220 to tq27_r2.
C17_DocstringExamples ==
    /\ (TqDecoded /\ dtile = "150110") => tqname = "tq01_r1"
    /\ (TqDecoded /\ dtile = "110851") => tqname = "tq16_r5l"
    /\ (TqDecoded /\ dtile = "151220") => tqname = "tq27_r2"

(***************************************************************************)
(* Pedestal.__init__, lines 27-65: the checks of the path, the fields, the *)
(* scan for the file name, the opening of the file.  The paths are words   *)
(* over a letter, the slash and the dot, followed by ".map", and a few     *)
(* paths the checks reject.                                                *)
(***************************************************************************)
MaxBody == 3

PathChars == {"a", "/", "."}

RECURSIVE Cat(_)
Cat(seq) == IF seq = <<>> THEN "" ELSE Head(seq) \o Cat(Tail(seq))

Bodies == UNION {{Cat(q) : q \in [1..n -> PathChars]} : n \in 0..MaxBody}

Paths == {b \o ".map" : b \in Bodies} \cup {"", "map", "a.txt", "aa.mapx", "dir/a", ".map/"}

\* the file systems a constructor call may find: nothing at any path, or a
\* file at every path but the empty one
Disks ==
    {[p \in Paths |-> Absent]}
        \cup {[p \in Paths |-> IF p = "" THEN Absent ELSE FileOf(f)] : f \in SourceFiles}

Abs(n) == IF n < 0 THEN 0 - n ELSE n

\* lines 39-45
NoTable ==
    /\ headers' = <<>> /\ cols' = <<>> /\ names' = <<>> /\ entries' = <<>> /\ rows' = <<>>

CtorCall(fp) ==
    /\ pc = "new"
    /\ pc' = "c_check"
    /\ filepath' = fp
    /\ UNCHANGED <<idx, selfname, selfpath, opened, sas, reads, dec, fs, table, locals,
                   call, csv, ci, outcome, nmut, nsave, hist, before>>

\* mutant: the check of line 36 left out
CtorCheckNoIsfile ==
    /\ pc = "c_check"
    /\ IF Len(filepath) < 5 \/ PySlice(filepath, -4, Len(filepath)) # ".map"
       THEN /\ pc' = "c_raised"
            /\ outcome' = Raised("ValueError")
            /\ UNCHANGED <<table, idx, selfpath>>
       ELSE /\ pc' = "c_scan"
            /\ NoTable
            /\ selfpath' = ""
            /\ idx' = -5
            /\ UNCHANGED outcome
    /\ UNCHANGED <<filepath, selfname, opened, sas, reads, dec, fs, locals,
                   call, csv, ci, nmut, nsave, hist, before>>

\* lines 28-48: the three checks, then the fields and i = -5
CtorCheck ==
    /\ pc = "c_check"
    /\ IF \/ Len(filepath) < 5
          \/ PySlice(filepath, -4, Len(filepath)) # ".map"
          \/ ~disk[filepath].exists
       THEN /\ pc' = "c_raised"
            /\ outcome' = Raised("ValueError")
            /\ UNCHANGED <<table, idx, selfpath>>
       ELSE /\ pc' = "c_scan"
            /\ NoTable
            /\ selfpath' = ""
            /\ idx' = -5
            /\ UNCHANGED outcome
    /\ UNCHANGED <<filepath, selfname, opened, sas, reads, dec, fs, locals,
                   call, csv, ci, nmut, nsave, hist, before>>

\* mutant: the test of line 57 left out, the scan running past the first
\* character of a path with no directory
CtorScanNoEnd ==
    /\ pc = "c_scan"
    /\ LET n == Len(filepath)
           k == PyIndex(n, idx)
       IN  IF k = 0
           THEN /\ pc' = "c_raised" /\ outcome' = Raised("IndexError")
                /\ UNCHANGED <<idx, selfname, selfpath>>
           ELSE IF Ch(filepath, k) = "/"
           THEN /\ idx' = idx + 1
                /\ selfname' = PySlice(filepath, n + idx + 1, -4)
                /\ selfpath' = PySlice(filepath, 0, n + idx + 1)
                /\ pc' = "c_open"
                /\ UNCHANGED outcome
           ELSE IF Abs(idx) > n
           THEN /\ pc' = "c_raised" /\ outcome' = Raised("RuntimeError")
                /\ UNCHANGED <<idx, selfname, selfpath>>
           ELSE /\ idx' = idx - 1
                /\ UNCHANGED <<pc, selfname, selfpath, outcome>>
    /\ UNCHANGED <<filepath, opened, sas, reads, dec, fs, table, locals,
                   call, csv, ci, nmut, nsave, hist, before>>

\* lines 49-63, one pass of the loop
CtorScan ==
    /\ pc = "c_scan"
    /\ LET n == Len(filepath)
           k == PyIndex(n, idx)
       IN  IF k = 0  \* line 50, filepath[i] out of range
           THEN /\ pc' = "c_raised" /\ outcome' = Raised("IndexError")
                /\ UNCHANGED <<idx, selfname, selfpath>>
           ELSE IF Ch(filepath, k) = "/"
           THEN /\ idx' = idx + 1
                /\ selfname' = PySlice(filepath, n + idx + 1, -4)
                /\ selfpath' = PySlice(filepath, 0, n + idx + 1)
                /\ pc' = "c_open"
                /\ UNCHANGED outcome
           ELSE IF Abs(idx) = n
           THEN /\ selfname' = PySlice(filepath, 0, -4)
                /\ pc' = "c_open"
                /\ UNCHANGED <<idx, selfpath, outcome>>
           ELSE IF Abs(idx) > n
           THEN /\ pc' = "c_raised" /\ outcome' = Raised("RuntimeError")
                /\ UNCHANGED <<idx, selfname, selfpath>>
           ELSE /\ idx' = idx - 1
                /\ UNCHANGED <<pc, selfname, selfpath, outcome>>
    /\ UNCHANGED <<filepath, opened, sas, reads, dec, fs, table, locals,
                   call, csv, ci, nmut, nsave, hist, before>>

\* lines 65-89: open() raises OSError, or the file is read; the object of a
\* call that raises is dropped, its fields are left as lines 39-45 set them
CtorOpen ==
    /\ pc = "c_open"
    /\ \E r \in {"ok", "OSError"} :
          IF r = "OSError"
          THEN /\ pc' = "c_raised" /\ outcome' = Raised("OSError")
               /\ UNCHANGED <<opened, table>>
          ELSE LET p == Parse(disk[filepath].lines)
               IN  /\ opened' = TRUE
                   /\ IF p.ok
                      THEN /\ headers' = p.headers /\ cols' = p.cols /\ names' = p.names
                           /\ entries' = p.entries /\ rows' = p.rows
                           /\ pc' = "idle"
                           /\ outcome' = Printed("Pedestal object successfully created.")
                      ELSE /\ pc' = "c_raised" /\ outcome' = Raised("IndexError")
                           /\ UNCHANGED table
    /\ UNCHANGED <<filepath, idx, selfname, selfpath, sas, reads, dec, fs, locals,
                   call, csv, ci, nmut, nsave, hist, before>>

InitCtor ==
    /\ Unloaded /\ CtorIdle /\ SasIdle /\ ReadsIdle /\ DecIdle
    /\ pc = "new"
    /\ disk \in Disks

NextCtor == (\E fp \in Paths : CtorCall(fp)) \/ CtorCheck \/ CtorScan \/ CtorOpen

SpecCtor == InitCtor /\ [][NextCtor]_vars

\* the loop of lines 49-63 is not left waiting: a pass is always taken
SpecCtorLive == SpecCtor /\ WF_vars(CtorScan)

\* lines 257-259 of save(): currentfile
CurrentFile == selfpath \o selfname \o ".map"

EndsInMap(s) == Len(s) >= 4 /\ SubSeq(s, Len(s) - 3, Len(s)) = ".map"

\* the paths C15 is about
Invalid == Len(filepath) < 5 \/ ~EndsInMap(filepath) \/ ~disk[filepath].exists

\* C15: a path shorter than 5 characters, one that does not end in ".map"
\* or one that is not an existing file raises ValueError before the file is
\* opened and before any field of the table is set; no object comes to be.
C15_ValidationFirst ==
    (pc # "new" /\ Invalid) =>
        /\ pc \in {"c_check", "c_raised"}
        /\ pc = "c_raised" => outcome = Raised("ValueError")
        /\ ~opened
        /\ headers = <<>> /\ cols = <<>> /\ names = <<>> /\ entries = <<>> /\ rows = <<>>
        /\ selfname = "" /\ selfpath = ""

\* a well-formed path with no file behind it has been refused
C15_Witness ==
    /\ pc = "c_raised" /\ outcome = Raised("ValueError")
    /\ filepath = "a/a.map" /\ ~disk[filepath].exists

\* C19: for every path the constructor accepts, the scan of lines 47-63 ends,
\* raises neither RuntimeError nor an index error, and leaves
\* self.path + self.name + ".map" = filepath, the file save() works on.
C19_ScanSplitsPath ==
    /\ [](pc = "c_scan" => (idx >= 0 - Len(filepath) /\ idx <= -5))
    /\ [](pc = "c_raised" =>
            /\ outcome.raised # "RuntimeError"
            /\ outcome.raised = "IndexError" => opened)
    /\ [](pc \in {"c_open", "idle"} => CurrentFile = filepath)
    /\ (pc = "c_scan" ~> pc = "c_open")

\* an object was made from a file in a directory, and from one in none
C19_Witness ==
    /\ pc = "idle" /\ opened
    /\ \/ filepath = "a/a.map" /\ selfpath = "a/" /\ selfname = "a"
       \/ filepath = "a.a.map" /\ selfpath = "" /\ selfname = "a.a"

(***************************************************************************)
(* Pedestal.saveas, lines 300-328, on an object made from the file         *)
(* peds.map of the working directory or of data/.  disk holds the files    *)
(* the call can reach; atCall keeps disk as the call found it.             *)
(***************************************************************************)
MaxAsk == 2

\* line 300: the default of ext
DefaultExt == ".map"

ObjDirs == {"", "data/"}
SasNames == {"new.map", "new", "peds.map"}
SasDirs == {"", "out/"}
SasPaths == {d \o n : d \in {"", "data/", "out/"}, n \in {"new.map", "peds.map"}}

\* what input() returns at line 314; "EOF" stands for its raising EOFError
Answers == {"y", "n", "", "x", "EOF"}

\* lines 302-309
SaveAsPath(spath, filename, path, ext) ==
    IF PySlice(filename, -4, Len(filename)) = ".map"
    THEN IF path = "" THEN spath \o filename ELSE path \o filename
    ELSE spath \o filename \o ext

\* lines 300-309
SaveAsCall(filename, path) ==
    /\ pc = "idle"
    /\ asname' = filename
    /\ aspath' = path
    /\ saved' = FALSE
    /\ target' = SaveAsPath(selfpath, filename, path, DefaultExt)
    /\ ans' = ""
    /\ nask' = 0
    /\ atCall' = disk
    /\ outcome' = NoOutcome
    /\ pc' = "a_check"
    /\ UNCHANGED <<ctor, disk, reads, dec, fs, table, renamed, wpos, call, csv, ci, nmut,
                   nsave, presave, log, before>>

\* line 311: a target that is not a file leaves the try with nothing done
SaveAsCheck ==
    /\ pc = "a_check"
    /\ pc' = IF disk[target].exists THEN "a_ask" ELSE "a_finally"
    /\ UNCHANGED <<ctor, sas, reads, dec, fs, table, locals, call, csv, ci, outcome,
                   nmut, nsave, hist, before>>

\* mutant: the loop of line 313 left as soon as the answer is not 'n'
SaveAsAskOnce(a) ==
    /\ pc = "a_ask"
    /\ ans' = a
    /\ nask' = nask + 1
    /\ IF a = "EOF" THEN pc' = "a_finally" /\ outcome' = Raised("EOFError")
       ELSE IF a = "n"
       THEN pc' = "a_finally" /\ outcome' = Caught("Call to save was cancelled.")
       ELSE pc' = "a_write" /\ UNCHANGED outcome
    /\ UNCHANGED <<ctor, asname, aspath, target, disk, reads, dec, fs, table, locals,
                   call, csv, ci, nmut, nsave, hist, before>>

\* lines 313-319: one answer to the prompt; 'n' raises the RuntimeError that
\* line 320 catches
SaveAsAsk(a) ==
    /\ pc = "a_ask"
    /\ a \in {"y", "n", "EOF"} \/ nask < MaxAsk
    /\ ans' = a
    /\ nask' = nask + 1
    /\ IF a = "EOF" THEN pc' = "a_finally" /\ outcome' = Raised("EOFError")
       ELSE IF a = "y" THEN pc' = "a_write" /\ UNCHANGED outcome
       ELSE IF a = "n"
       THEN pc' = "a_finally" /\ outcome' = Caught("Call to save was cancelled.")
       ELSE pc' = "a_ask" /\ UNCHANGED outcome
    /\ UNCHANGED <<ctor, asname, aspath, target, disk, reads, dec, fs, table, locals,
                   call, csv, ci, nmut, nsave, hist, before>>

\* lines 316-317: writemap(filepath) runs to its end, or open() raises
\* OSError with the file untouched, or a write raises it with k lines kept
SaveAsWrite ==
    /\ pc = "a_write"
    /\ LET full == WriteMapLines(headers, names, entries, rows)
       IN  \/ /\ disk' = [disk EXCEPT ![target] = FileOf(full)]
              /\ saved' = TRUE
              /\ UNCHANGED outcome
           \/ /\ outcome' = Raised("OSError")
              /\ UNCHANGED <<disk, saved>>
           \/ \E k \in 0..(Len(full) - 1) :
                 /\ disk' = [disk EXCEPT ![target] = FileOf(SubSeq(full, 1, k))]
                 /\ outcome' = Raised("OSError")
                 /\ UNCHANGED saved
    /\ pc' = "a_finally"
    /\ UNCHANGED <<ctor, asname, aspath, target, ans, nask, reads, dec, fs, table,
                   renamed, wpos, call, csv, ci, nmut, nsave, hist, before>>

\* lines 322-328: the message of the finally clause; an exception that is
\* not a RuntimeError goes on to the caller
SaveAsFinally ==
    /\ pc = "a_finally"
    /\ outcome' = [outcome EXCEPT !.printed =
                      IF saved THEN "File was saved successfully."
                      ELSE "File was not saved."]
    /\ pc' = "a_done"
    /\ UNCHANGED <<ctor, sas, reads, dec, fs, table, locals, call, csv, ci,
                   nmut, nsave, hist, before>>

\* the object of Loaded was made from peds.map in the directory sp
Constructed(sp) ==
    /\ filepath = sp \o "peds.map"
    /\ selfpath = sp
    /\ selfname = "peds"
    /\ idx = -8
    /\ opened = TRUE

\* the object's own file is on disk as it was read; any other file may be
InitSaveAs ==
    /\ Loaded /\ SasIdle /\ ReadsIdle /\ DecIdle
    /\ \E sp \in ObjDirs : Constructed(sp)
    /\ \E E \in SUBSET SasPaths :
          disk = [p \in SasPaths |->
                    IF p = filepath THEN fs.cur
                    ELSE IF p \in E THEN FileOf(StaleLines) ELSE Absent]

NextSaveAs ==
    \/ \E fn \in SasNames, pa \in SasDirs : SaveAsCall(fn, pa)
    \/ SaveAsCheck
    \/ \E a \in Answers : SaveAsAsk(a)
    \/ SaveAsWrite
    \/ SaveAsFinally

SpecSaveAs == InitSaveAs /\ [][NextSaveAs]_vars

SaveAsPcs == {"a_check", "a_ask", "a_write", "a_finally", "a_done"}

\* what writemap writes of the table
TableLines == WriteMapLines(headers, names, entries, rows)

\* C13: saveas(filename) on a target that does not exist creates it with the
\* whole table, and asks nothing.
C13_CreatesMissingTarget ==
    (pc = "a_done" /\ aspath = "" /\ ~atCall[target].exists) =>
        /\ disk[target] = FileOf(TableLines)
        /\ nask = 0

\* no file is other than the call found it
C14_Unwritten == disk = atCall

\* the prompt is left only on 'y', on 'n' or on the end of the input
C14_AskAgain ==
    (pc = "a_ask" /\ pc' # "a_ask") => ans' \in {"y", "n", "EOF"}

\* C14: an existing target is overwritten only after the answer 'y'; the
\* prompt comes again after every answer other than 'y' and 'n'; after 'n'
\* the file is as it was and "File was not saved." is printed; nothing is
\* written to the target before a 'y'.
C14_OverwriteOnlyAfterYes ==
    /\ []((pc \in SaveAsPcs /\ atCall[target].exists) =>
            /\ ~C14_Unwritten => (ans = "y" /\ pc \in {"a_finally", "a_done"})
            /\ pc = "a_write" => ans = "y"
            /\ \A p \in SasPaths \ {target} : disk[p] = atCall[p]
            /\ (pc = "a_done" /\ ans = "n") =>
                  /\ C14_Unwritten
                  /\ outcome.printed = "File was not saved."
                  /\ outcome.raised = "")
    /\ [][C14_AskAgain]_vars

\* an existing target was overwritten with the table after a second prompt
C14_Witness ==
    /\ pc = "a_done" /\ atCall[target].exists /\ ans = "y" /\ nask = 2
    /\ disk[target] = FileOf(TableLines) /\ disk[target] # atCall[target]
    /\ outcome.printed = "File was saved successfully."

\* the target the docstring of saveas describes
DocumentedTarget ==
    (IF aspath # "" THEN aspath ELSE selfpath)
        \o (IF EndsInMap(asname) THEN asname ELSE asname \o DefaultExt)

\* C18: for every filename, ending in ".map" or not, the target is in the
\* directory of the path argument when that is not empty, and in the
\* directory of the original file when it is.
C18_TargetDirectory == pc \in SaveAsPcs => target = DocumentedTarget

(***************************************************************************)
(* The read accessors, lines 91-102, 108-151, 243-246 and 351-353, each a  *)
(* single step of an idle object.  ret keeps the text of the cell a number *)
(* was read from; the arithmetic of hwsum is not carried out.              *)
(***************************************************************************)
MaxRead == 1

\* float(s) of a cell text made of digits and dots
IsFloatText(s) ==
    /\ \A i \in 1..Len(s) : IsDigit(Ch(s, i)) \/ Ch(s, i) = "."
    /\ \E i \in 1..Len(s) : IsDigit(Ch(s, i))
    /\ Cardinality({i \in 1..Len(s) : Ch(s, i) = "."}) <= 1

\* float(v) and int(v) raise ValueError when these are FALSE
FloatOk(v) == v.k # "str" \/ IsFloatText(v.s)
IntOk(v) == v.k = "int" \/ (v.k = "str" /\ AllDigits(v.s))

\* self.entries[self.rows[row]][self.cols[col]]
Cell(row, col) ==
    IF row \notin DOMAIN rows \/ col \notin DOMAIN cols
    THEN [err |-> "KeyError", val |-> ""]
    ELSE IF cols[col] >= Len(entries[rows[row] + 1])
    THEN [err |-> "IndexError", val |-> ""]
    ELSE [err |-> "", val |-> Str(entries[rows[row] + 1][cols[col] + 1]),
          float |-> FloatOk(entries[rows[row] + 1][cols[col] + 1]),
          int |-> IntOk(entries[rows[row] + 1][cols[col] + 1])]

\* lines 99-102 and 351-353: float(cell)
FloatCell(row, col) ==
    LET c == Cell(row, col)
    IN  IF c.err # "" THEN c
        ELSE IF ~c.float THEN [err |-> "ValueError", val |-> ""]
        ELSE [err |-> "", val |-> c.val]

\* lines 243-246: int(cell)
IntCell(row, col) ==
    LET c == Cell(row, col)
    IN  IF c.err # "" THEN c
        ELSE IF ~c.int THEN [err |-> "ValueError", val |-> ""]
        ELSE [err |-> "", val |-> c.val]

\* lines 149-151: voltperhz(row), then normrate(row)
HwSum(row) ==
    LET v == FloatCell(row, "VoltPerHz")
        n == IntCell(row, NormRateCol)
    IN  IF v.err # "" THEN v
        ELSE IF n.err # "" THEN n
        ELSE [err |-> "", val |-> v.val \o " " \o n.val]

ReadRows == {"TQ01_R1", "TQ16_R5L", "TQ99_R9"}

\* an accessor returns: nothing but ret, the exception and the count changes
Returns(op, row, res) ==
    /\ pc = "idle"
    /\ nread < MaxRead
    /\ nread' = nread + 1
    /\ ret' = [op |-> op, row |-> row, val |-> res.val]
    /\ outcome' = IF res.err = "" THEN NoOutcome ELSE Raised(res.err)
    /\ UNCHANGED <<ctor, sas, dec, fs, table, pc, locals, call, csv, ci, nmut, nsave,
                   hist, before>>

countcols == Returns("countcols", "", [err |-> "", val |-> Digits(CountCols(cols))])
countrows == Returns("countrows", "", [err |-> "", val |-> Digits(CountRows(rows))])
gain(row) == Returns("gain", row, FloatCell(row, "Gain"))
normrate(row) == Returns("normrate", row, IntCell(row, NormRateCol))
voltperhz(row) == Returns("voltperhz", row, FloatCell(row, "VoltPerHz"))
hwsum(row) == Returns("hwsum", row, HwSum(row))

Read ==
    \/ countcols
    \/ countrows
    \/ \E row \in ReadRows : gain(row)
    \/ \E row \in ReadRows : normrate(row)
    \/ \E row \in ReadRows : voltperhz(row)
    \/ \E row \in ReadRows : hwsum(row)

\* an object in use with no call of save() or saveas()
NextFrame == Mutate \/ Import \/ Read

SpecFrame == Init /\ [][NextFrame]_vars

\* C16: no implicit autosave: setval, setcol, setcols, import_tq_rates and
\* the read accessors, in any order, leave the .map file, its backup and
\* every other file as they were.
C16_NoAutosave ==
    /\ [](fs = atCall /\ fs.cur = FileOf(presave))
    /\ [][fs' = fs /\ disk' = disk]_vars

\* a cell has been changed and read back, the file being as it was read
C16_Witness ==
    /\ nmut > 0 /\ nread > 0 /\ pc = "idle"
    /\ entries # Parse(presave).entries
    /\ ret.op = "gain" /\ ret.val = "7"
    /\ fs.cur = FileOf(presave)

====
